---- MODULE Spec2Model ----
(***************************************************************************)
(* Model of pulser/parametrized/paramobj.py: ParamObj (a deferred call of  *)
(* cls on args and kwargs, over Variables), its memoized build,            *)
(* the operator support of OpSupport, and attribute / call proxying.       *)
(*                                                                         *)
(* The heap is a sequence of ParamObj nodes in construction order; a node  *)
(* refers to older nodes and to Variables by index.  Python values are     *)
(* triples <<tag, n, d>>: numbers are exact rationals n/d.                 *)
(***************************************************************************)
EXTENDS Integers, Sequences, FiniteSets, TLC

(***************************************************************************)
(* Bounds of the exploration.                                              *)
(***************************************************************************)
MaxNodes == 2        \* ParamObj nodes constructed in one run
MaxCount == 1        \* assignments per Variable
MaxMag == 40         \* largest numerator / denominator a built number may have

(***************************************************************************)
(* Python values.                                                          *)
(***************************************************************************)
None == <<"None", 0, 0>>

RECURSIVE Gcd(_, _)
Gcd(a, b) == IF b = 0 THEN a ELSE Gcd(b, a % b)

Abs(x) == IF x < 0 THEN -x ELSE x

\* the number n/d (d # 0) in lowest terms with a positive denominator
Num(n, d) ==
    LET g == Gcd(Abs(n), Abs(d))
        s == IF d < 0 THEN -1 ELSE 1
    IN  <<"num", (s * n) \div g, (s * d) \div g>>

IntV(n) == <<"num", n, 1>>

Str(i) == <<"str", i, 0>>

IsNum(v) == v[1] = "num"

\* the result of a call: a returned value or a raised exception
Ret(v) == [ok |-> TRUE, val |-> v]

Raise(e) == [ok |-> FALSE, val |-> <<e, 0, 0>>]

\* a number outside the explored range (too large, or irrational)
Unmodelled == Raise("Unmodelled")

Bounded(r) ==
    IF r.ok /\ IsNum(r.val) /\ (Abs(r.val[2]) > MaxMag \/ r.val[3] > MaxMag)
    THEN Unmodelled ELSE r

\* floor of the rational n/d, d > 0
Floor(n, d) == n \div d

RECURSIVE IntPow(_, _, _)
\* n/d raised to the power e >= 0, Unmodelled once it leaves the range
IntPow(n, d, e) ==
    IF e = 0 THEN Ret(IntV(1))
    ELSE LET r == IntPow(n, d, e - 1)
         IN  IF ~r.ok THEN r
             ELSE Bounded(Ret(Num(r.val[2] * n, r.val[3] * d)))

(***************************************************************************)
(* The functions of Python's operator module that OpSupport wraps, on      *)
(* numbers.  Floats are modelled by the exact rational.                    *)
(***************************************************************************)
reversible_ops ==
    <<"__add__", "__sub__", "__mul__", "__truediv__", "__floordiv__",
      "__pow__", "__mod__">>

BinOps == {reversible_ops[i] : i \in DOMAIN reversible_ops}

NumOp(op_name, a, b) ==
    LET an == a[2]  ad == a[3]  bn == b[2]  bd == b[3]
    IN  CASE op_name = "__add__" -> Ret(Num(an * bd + bn * ad, ad * bd))
          [] op_name = "__sub__" -> Ret(Num(an * bd - bn * ad, ad * bd))
          [] op_name = "__mul__" -> Ret(Num(an * bn, ad * bd))
          [] op_name = "__truediv__" ->
                IF bn = 0 THEN Raise("ZeroDivisionError")
                ELSE Ret(Num(an * bd, ad * bn))
          [] op_name = "__floordiv__" ->
                IF bn = 0 THEN Raise("ZeroDivisionError")
                ELSE LET q == Num(an * bd, ad * bn)
                     IN  Ret(IntV(Floor(q[2], q[3])))
          [] op_name = "__mod__" ->
                IF bn = 0 THEN Raise("ZeroDivisionError")
                ELSE LET q == Num(an * bd, ad * bn)
                         f == Floor(q[2], q[3])
                     IN  Ret(Num(an * bd - f * bn * ad, ad * bd))
          [] op_name = "__pow__" ->
                IF bd # 1 THEN Unmodelled
                ELSE IF bn >= 0 THEN IntPow(an, ad, bn)
                ELSE IF an = 0 THEN Raise("ZeroDivisionError")
                ELSE IntPow(ad, an, -bn)

\* operator.<op_name>(a, b)
ApplyBinOp(op_name, a, b) ==
    IF IsNum(a) /\ IsNum(b) THEN Bounded(NumOp(op_name, a, b))
    ELSE Raise("TypeError")

\* operator.neg(a) and operator.abs(a)
ApplyUnOp(op_name, a) ==
    IF ~IsNum(a) THEN Raise("TypeError")
    ELSE IF op_name = "neg" THEN Ret(Num(-a[2], a[3]))
    ELSE Ret(Num(Abs(a[2]), a[3]))

(***************************************************************************)
(* Variables (pulser.parametrized.Variable, consumed through the interface *)
(* of spec section 3): a name that is the key of its `variables` mapping,  *)
(* a value and a version counter.  The two Variable objects have either    *)
(* different names or the same name.                                       *)
(***************************************************************************)
Vars == {1, 2}

Names == {"a", "b"}

Namings == {<<"a", "b">>, <<"a", "a">>}

\* the values a Variable is assigned
Values == {IntV(0), IntV(2)}

\* the concrete operands and arguments of the explored programs
Concretes == {IntV(3)}

\* the attribute names asked of a node; Str(i) is the string AttrNames[i]
AttrNames == <<"val", "nope">>

\* a mapping from names to Variables is a function on Names, 0 for no entry
NoVars == [k \in Names |-> 0]

\* a mapping from names to counts is a function on Names, Absent for no entry
Absent == -1

NoState == [k \in Names |-> Absent]

(***************************************************************************)
(* Arguments and targets of a node.                                        *)
(***************************************************************************)
Const(v) == [k |-> "c", id |-> 0, val |-> v]

VarRef(v) == [k |-> "var", id |-> v, val |-> None]

NodeRef(n) == [k |-> "node", id |-> n, val |-> None]

Fn(f) == [k |-> "fn", id |-> 0, name |-> f]

NodeTarget(n) == [k |-> "node", id |-> n, name |-> ""]

Range(xs) == {xs[i] : i \in DOMAIN xs}

\* isinstance(x, Parametrized)
IsParametrized(x) == x.k \in {"var", "node"}

VARIABLES
    nodes,       \* the ParamObj objects: [cls, args, kwargs, variables]
    instance,    \* instance[n] is node n's _instance
    vars_state,  \* vars_state[n] is node n's _vars_state
    count,       \* count[v] is Variable v's _count
    value,       \* value[v] is Variable v's value
    var_name,    \* var_name[v] is Variable v's name
    hist         \* hist[n]: the latest build() call on node n

vars == <<nodes, instance, vars_state, count, value, var_name, hist>>

\* x.variables of a Parametrized x in heap ns
VariablesOf(ns, x) ==
    IF x.k = "var" THEN [k \in Names |-> IF var_name[x.id] = k THEN x.id ELSE 0]
    ELSE IF x.k = "node" THEN ns[x.id].variables
    ELSE NoVars

\* an update that only fills an empty dict
MergeVarsDrop(d, new) == IF d = NoVars THEN new ELSE d

\* the dict after d.update(new)
MergeVars(d, new) == [k \in Names |-> IF new[k] # 0 THEN new[k] ELSE d[k]]

RECURSIVE UpdateAll(_, _, _)
\* the loop of __init__ over chain(args, kwargs.values())
UpdateAll(ns, d, xs) ==
    IF xs = <<>> THEN d
    ELSE UpdateAll(ns,
                   IF IsParametrized(Head(xs))
                   THEN MergeVars(d, VariablesOf(ns, Head(xs))) ELSE d,
                   Tail(xs))

\* the values of a kwargs dict, kept as a sequence of <<key, value>> pairs
KwValues(kwargs) == [i \in DOMAIN kwargs |-> kwargs[i][2]]

\* an __init__ whose merges keep the entry already present for a key
ParamObjKeepFirst(ns, cls, args, kwargs) ==
    LET xs == args \o KwValues(kwargs)
        rev == [i \in 1..Len(xs) |-> xs[Len(xs) + 1 - i]]
        d == UpdateAll(ns, NoVars, rev)
    IN  [cls |-> cls, args |-> args, kwargs |-> kwargs,
         variables |-> IF cls.k = "node" THEN MergeVars(d, ns[cls.id].variables)
                       ELSE d]

\* ParamObj.__init__: the new object
ParamObj(ns, cls, args, kwargs) ==
    LET v0 == IF cls.k = "node" THEN MergeVars(NoVars, ns[cls.id].variables)
              ELSE NoVars
    IN  [cls |-> cls, args |-> args, kwargs |-> kwargs,
         variables |-> UpdateAll(ns, v0, args \o KwValues(kwargs))]

(***************************************************************************)
(* The wrapped callables: the operator functions, getattr, and a class Box *)
(* standing for a domain class: Box(val) holds a number, has the property  *)
(* val and is callable, Box(x)(k) == x * k.  "partial" is the callable     *)
(* object functools.partial(Box): it calls Box and, being an object and    *)
(* not a class or function, has no __name__ and no attribute val.          *)
(***************************************************************************)
\* Box(*args_, **kwargs_)
NewBox(args_, kwargs_) ==
    LET x == IF Len(args_) = 1 THEN args_[1] ELSE kwargs_[1][2]
    IN  IF Len(args_) + Len(kwargs_) # 1 THEN Raise("TypeError")
        ELSE IF Len(kwargs_) = 1 /\ kwargs_[1][1] # "val" THEN Raise("TypeError")
        ELSE IF ~IsNum(x) THEN Raise("TypeError")
        ELSE Ret(<<"Box", x[2], x[3]>>)

\* getattr(obj, name)
GetAttrOf(args_, kwargs_) ==
    IF Len(args_) # 2 \/ Len(kwargs_) # 0 \/ args_[2][1] # "str"
    THEN Raise("TypeError")
    ELSE IF args_[1][1] = "Box" /\ AttrNames[args_[2][2]] = "val"
    THEN Ret(<<"num", args_[1][2], args_[1][3]>>)
    ELSE Raise("AttributeError")

\* f(*args_, **kwargs_) for a function or class f
CallFn(f, args_, kwargs_) ==
    IF f \in {"Box", "partial"} THEN NewBox(args_, kwargs_)
    ELSE IF f = "getattr" THEN GetAttrOf(args_, kwargs_)
    ELSE IF f \in {"neg", "abs"} THEN
        IF Len(args_) # 1 \/ Len(kwargs_) # 0 THEN Raise("TypeError")
        ELSE ApplyUnOp(f, args_[1])
    ELSE IF Len(args_) # 2 \/ Len(kwargs_) # 0 THEN Raise("TypeError")
    ELSE ApplyBinOp(f, args_[1], args_[2])

\* obj(*args_, **kwargs_) for a built object obj
CallObj(obj, args_, kwargs_) ==
    IF obj[1] # "Box" THEN Raise("TypeError")
    ELSE IF Len(args_) # 1 \/ Len(kwargs_) # 0 THEN Raise("TypeError")
    ELSE ApplyBinOp("__mul__", <<"num", obj[2], obj[3]>>, args_[1])

(***************************************************************************)
(* ParamObj.build.  A build runs on a record m of the fields it writes:    *)
(* instance and vars_state of every node, and the bookkeeping hist, inv    *)
(* (calls of each node's wrapped callable in this operation), blt (build() *)
(* calls on each node in this operation) and res (what the latest call of  *)
(* each node's wrapped callable returned or raised).                       *)
(***************************************************************************)
NodeIds == 1..MaxNodes

Zeros == [n \in NodeIds |-> 0]

Machine == [instance |-> instance, vars_state |-> vars_state, hist |-> hist,
            inv |-> Zeros, blt |-> Zeros, res |-> [n \in NodeIds |-> Ret(None)]]

\* {key: var._count for key, var in self._variables.items()}
CurVersions(n) ==
    [k \in Names |-> IF nodes[n].variables[k] = 0 THEN Absent
                     ELSE count[nodes[n].variables[k]]]

\* a test that never takes the cached instance
NeedsBuildAlways(stored, current) == TRUE

\* a test that rebuilds only a node that was never built
NeedsBuildFirstOnly(stored, current) == stored = NoState

\* the test `vars_state != self._vars_state`
NeedsBuild(stored, current) == current # stored

\* the record of one build() call on a node: the versions of its variables
\* at the call, whether the call invoked the wrapped callable, what it
\* returned or raised, and whether there was a call before it and at which
\* versions
CallRec(h, vers, invoked, out) ==
    [called |-> TRUE, vers |-> vers, invoked |-> invoked, out |-> out,
     again |-> h.called, prev |-> h.vers]

NoCall == [called |-> FALSE, vers |-> NoState, invoked |-> FALSE, out |-> Ret(None),
           again |-> FALSE, prev |-> NoState]

Logged(m, n, vers, invoked, out) ==
    [m EXCEPT !.hist[n] = CallRec(@, vers, invoked, out), !.blt[n] = @ + 1]

RECURSIVE BuildNode(_, _)
RECURSIVE BuildSeq(_, _, _)

\* a loop that reports the failure of an element as an error of its own
BuildSeqWrapping(m, xs, acc) ==
    IF xs = <<>> THEN [m |-> m, out |-> Ret(None), vals |-> acc]
    ELSE LET x == Head(xs)
             r == IF x.k = "node" THEN BuildNode(m, x.id)
                  ELSE IF x.k = "var" THEN [m |-> m, out |-> Ret(value[x.id])]
                  ELSE [m |-> m, out |-> Ret(x.val)]
         IN  IF ~r.out.ok THEN [m |-> r.m, out |-> Raise("RuntimeError"), vals |-> acc]
             ELSE BuildSeq(r.m, Tail(xs), Append(acc, r.out.val))

\* [x.build() if isinstance(x, Parametrized) else x for x in xs], in order
BuildSeq(m, xs, acc) ==
    IF xs = <<>> THEN [m |-> m, out |-> Ret(None), vals |-> acc]
    ELSE LET x == Head(xs)
             r == IF x.k = "node" THEN BuildNode(m, x.id)
                  ELSE IF x.k = "var" THEN [m |-> m, out |-> Ret(value[x.id])]
                  ELSE [m |-> m, out |-> Ret(x.val)]
         IN  IF ~r.out.ok THEN [m |-> r.m, out |-> r.out, vals |-> acc]
             ELSE BuildSeq(r.m, Tail(xs), Append(acc, r.out.val))

\* self.build() for node n: the fields after it and what it returned / raised
BuildNode(m, n) ==
    LET self == nodes[n]
        current == CurVersions(n)
        before == m.instance[n]
    IN  IF ~NeedsBuild(m.vars_state[n], current)
        THEN [m |-> Logged(m, n, current, FALSE, Ret(before)),
              out |-> Ret(before)]
        ELSE
        LET m1 == [m EXCEPT !.vars_state[n] = current]
            ra == BuildSeq(m1, self.args, <<>>)
        IN  IF ~ra.out.ok
            THEN [m |-> Logged(ra.m, n, current, FALSE, ra.out),
                  out |-> ra.out]
            ELSE
            LET rk == BuildSeq(ra.m, KwValues(self.kwargs), <<>>)
            IN  IF ~rk.out.ok
                THEN [m |-> Logged(rk.m, n, current, FALSE, rk.out),
                      out |-> rk.out]
                ELSE
                LET rc == IF self.cls.k = "node" THEN BuildNode(rk.m, self.cls.id)
                          ELSE [m |-> rk.m, out |-> Ret(None)]
                IN  IF ~rc.out.ok
                    THEN [m |-> Logged(rc.m, n, current, FALSE, rc.out),
                          out |-> rc.out]
                    ELSE
                    LET kwargs_ == [i \in DOMAIN self.kwargs |->
                                       <<self.kwargs[i][1], rk.vals[i]>>]
                        res == IF self.cls.k = "node"
                               THEN CallObj(rc.out.val, ra.vals, kwargs_)
                               ELSE CallFn(self.cls.name, ra.vals, kwargs_)
                        m2 == [rc.m EXCEPT !.inv[n] = @ + 1, !.res[n] = res,
                                           !.instance[n] =
                                               IF res.ok THEN res.val ELSE @]
                        out == IF res.ok THEN Ret(m2.instance[n]) ELSE res
                    IN  [m |-> Logged(m2, n, current, TRUE, out), out |-> out]

(***************************************************************************)
(* ParamObj.__str__ and ParamObj._to_dict.  A text is the sequence of its  *)
(* pieces; both read the fields of the nodes and nothing else.             *)
(***************************************************************************)
\* f.__name__ of a class or function f
FnName(f) ==
    CASE f = "__add__" -> "add" [] f = "__sub__" -> "sub" [] f = "__mul__" -> "mul"
      [] f = "__truediv__" -> "truediv" [] f = "__floordiv__" -> "floordiv"
      [] f = "__pow__" -> "pow" [] f = "__mod__" -> "mod" [] OTHER -> f

\* f.__module__ of a class or function f
FnModule(f) ==
    IF f \in BinOps \cup {"neg", "abs"} THEN "_operator"
    ELSE IF f = "getattr" THEN "builtins" ELSE "box"

\* hasattr(f, "__name__"): classes and functions have a name
HasName(f) == f # "partial"

\* every attribute name an AttributeError can carry
ErrorNames == AttrNames \o <<"__name__">>

\* AttributeError about the attribute called name
AttributeError(name) ==
    [ok |-> FALSE,
     val |-> <<"AttributeError", CHOOSE i \in DOMAIN ErrorNames : ErrorNames[i] = name, 0>>]

\* self.cls.__name__
NameOf(f) == IF HasName(f) THEN [ok |-> TRUE, val |-> <<FnName(f)>>]
             ELSE AttributeError("__name__")

RECURSIVE RenderObj(_)
RECURSIVE RenderSeq(_, _)

\* ', '.join of the texts of items, each a pair <<prefix, x>>: str(x) after
\* the pieces of prefix
RenderSeq(items, acc) ==
    IF Len(items) = 0 THEN [ok |-> TRUE, val |-> acc]
    ELSE LET x == Head(items)[2]
             r == IF x.k = "node" THEN RenderObj(nodes[x.id])
                  ELSE IF x.k = "var" THEN [ok |-> TRUE, val |-> <<var_name[x.id]>>]
                  ELSE [ok |-> TRUE, val |-> <<x.val>>]
             sep == IF Len(acc) = 0 THEN <<>> ELSE <<", ">>
         IN  IF ~r.ok THEN r
             ELSE RenderSeq(Tail(items), acc \o sep \o Head(items)[1] \o r.val)

\* ParamObj.__str__ of the object self: the text, or the error it raises
RenderObj(self) ==
    LET items == [i \in DOMAIN self.args |-> << <<>>, self.args[i] >>]
                 \o [i \in DOMAIN self.kwargs |->
                        << <<self.kwargs[i][1], "=">>, self.kwargs[i][2] >>]
        ra == RenderSeq(items, <<>>)
        name == IF self.cls.k = "node" THEN RenderObj(nodes[self.cls.id])
                ELSE NameOf(self.cls.name)
    IN  IF ~ra.ok THEN ra
        ELSE IF ~name.ok THEN name
        ELSE [ok |-> TRUE, val |-> name.val \o <<"(">> \o ra.val \o <<")">>]

\* str(node n)
Render(n) == RenderObj(nodes[n])

\* obj_to_dict(obj, *args, _build, _module, _name, **kwargs) of pulser.utils:
\* the description of a call, with the descriptions of its arguments in
\* order and of its keyword values under their keys
ObjToDict(build_, module, name, args, kwargs) ==
    [_build |-> build_, __module__ |-> module, __name__ |-> name,
     __args__ |-> args, __kwargs__ |-> kwargs]

RECURSIVE ToDict(_)
RECURSIVE DescribeSeq(_, _)

\* the descriptions of xs in order: a node's is its _to_dict(), a Variable's
\* names it, a concrete value is taken as it is
DescribeSeq(xs, acc) ==
    IF Len(xs) = 0 THEN [ok |-> TRUE, val |-> acc]
    ELSE LET x == Head(xs)
             r == IF x.k = "node" THEN ToDict(x.id)
                  ELSE IF x.k = "var"
                  THEN [ok |-> TRUE,
                        val |-> ObjToDict(TRUE, "pulser.parametrized.variable",
                                          "Variable", <<var_name[x.id]>>, <<>>)]
                  ELSE [ok |-> TRUE, val |-> x.val]
         IN  IF ~r.ok THEN r ELSE DescribeSeq(Tail(xs), Append(acc, r.val))

\* ParamObj._to_dict of node n: the description, or the error it raises
ToDict(n) ==
    LET self == nodes[n]
        cls_dict ==
            IF self.cls.k = "node" THEN ToDict(self.cls.id)
            ELSE IF ~HasName(self.cls.name) THEN AttributeError("__name__")
            ELSE [ok |-> TRUE,
                  val |-> ObjToDict(FALSE, FnModule(self.cls.name),
                                    FnName(self.cls.name), <<>>, <<>>)]
        ra == DescribeSeq(self.args, <<>>)
        rk == DescribeSeq(KwValues(self.kwargs), <<>>)
    IN  IF ~cls_dict.ok THEN cls_dict
        ELSE IF ~ra.ok THEN ra
        ELSE IF ~rk.ok THEN rk
        ELSE [ok |-> TRUE,
              val |-> ObjToDict(TRUE, "pulser.parametrized.paramobj", "ParamObj",
                                <<cls_dict.val>> \o ra.val,
                                [i \in DOMAIN self.kwargs |->
                                    <<self.kwargs[i][1], rk.val[i]>>])]

\* a serialization that describes the built arguments
SerializedBuilt(n) ==
    [m |-> BuildSeq(Machine, nodes[n].args \o KwValues(nodes[n].kwargs), <<>>).m,
     out |-> ToDict(n)]

\* node n's _to_dict() called in the current state: the fields of the nodes
\* after it and what it returned or raised
Serialized(n) == [m |-> Machine, out |-> ToDict(n)]

(***************************************************************************)
(* The operations.                                                         *)
(***************************************************************************)
NoArg == Const(None)

\* the heap gains the freshly constructed object obj
Allocate(obj) ==
    /\ Len(nodes) < MaxNodes
    /\ nodes' = Append(nodes, obj)
    /\ instance' = Append(instance, None)
    /\ vars_state' = Append(vars_state, NoState)
    /\ hist' = Append(hist, NoCall)
    /\ UNCHANGED <<count, value, var_name>>

\* some node was constructed with Variable v as an argument
Mentioned(v) ==
    \E n \in 1..Len(nodes) :
        \E x \in Range(nodes[n].args \o KwValues(nodes[n].kwargs)) : x = VarRef(v)

\* The explored programs take their Variables in order: Variable v enters a
\* program once every Variable before it is part of the program (or is the
\* left operand `first` of the same expression).
Declared(first) ==
    {v \in Vars : \A u \in Vars : u < v => Mentioned(u) \/ first = VarRef(u)}

\* the Parametrized objects at hand: the Variables and the nodes made so far
SymObjs(first) ==
    {VarRef(v) : v \in Declared(first)} \cup {NodeRef(n) : n \in 1..Len(nodes)}

Operands(first) == {Const(c) : c \in Concretes} \cup SymObjs(first)

\* The explored programs use one binary operator each: the binary operators
\* a program may apply next
OpsAtHand ==
    {op_name \in BinOps :
        \A n \in 1..Len(nodes) :
            nodes[n].cls.k = "fn" /\ nodes[n].cls.name \in BinOps
                => nodes[n].cls.name = op_name}

\* OpSupport._do_op, eagerly building a node operand
do_op_eager(op_name, self, other) ==
    LET r == IF self.k = "node" THEN BuildNode(Machine, self.id)
             ELSE [m |-> Machine, out |-> Ret(None)]
    IN  /\ Len(nodes) < MaxNodes
        /\ nodes' = Append(nodes, ParamObj(nodes, Fn(op_name), <<self, other>>, <<>>))
        /\ instance' = Append(r.m.instance, None)
        /\ vars_state' = Append(r.m.vars_state, NoState)
        /\ hist' = Append(r.m.hist, NoCall)
        /\ UNCHANGED <<count, value, var_name>>

\* OpSupport._do_op: self OP other
do_op(op_name, self, other) ==
    Allocate(ParamObj(nodes, Fn(op_name), <<self, other>>, <<>>))

\* OpSupport._do_rop: other OP self
do_rop(op_name, self, other) ==
    Allocate(ParamObj(nodes, Fn(op_name), <<other, self>>, <<>>))

\* OpSupport.__neg__ and OpSupport.__abs__
do_unary(op_name, self) ==
    Allocate(ParamObj(nodes, Fn(op_name), <<self>>, <<>>))

\* ParamObj(Box, x) and ParamObj(Box, val=x)
new_box(x, keyword) ==
    Allocate(ParamObj(nodes, Fn("Box"),
                      IF keyword THEN <<>> ELSE <<x>>,
                      IF keyword THEN << <<"val", x>> >> ELSE <<>>))

\* ParamObj(functools.partial(Box), x)
new_partial(x) ==
    Allocate(ParamObj(nodes, Fn("partial"), <<x>>, <<>>))

RECURSIVE HasAttr(_, _)
\* hasattr(cls, name): Box has the property val; a ParamObj answers through
\* its own __getattr__
HasAttr(cls, name) ==
    IF cls.k = "node" THEN HasAttr(nodes[cls.id].cls, name)
    ELSE cls.name = "Box" /\ name = "val"

\* ParamObj.__getattr__(name) on node n, name == AttrNames[i]: what it
\* returns (the objects it constructs, in new) or raises
GetAttr(n, i) ==
    IF HasAttr(nodes[n].cls, AttrNames[i])
    THEN [out |-> Ret(None),
          new |-> <<ParamObj(nodes, Fn("getattr"), <<NodeRef(n), Const(Str(i))>>, <<>>)>>]
    ELSE LET text == Render(n)
         IN  [out |-> IF text.ok THEN AttributeError(AttrNames[i]) ELSE text,
              new |-> <<>>]

\* ParamObj.__getattr__(name) on node n, name == AttrNames[i]; when it raises
\* nothing was written
getattr_(n, i) ==
    /\ Len(nodes) < MaxNodes
    /\ LET r == GetAttr(n, i)
       IN  IF r.out.ok THEN Allocate(r.new[1]) ELSE UNCHANGED vars

\* str(node n), called from outside
str_(n) ==
    /\ Render(n).ok \in BOOLEAN
    /\ UNCHANGED vars

\* ParamObj._to_dict() on node n, called from outside
to_dict(n) ==
    LET r == Serialized(n)
    IN  /\ r.out.ok \in BOOLEAN
        /\ instance' = r.m.instance
        /\ vars_state' = r.m.vars_state
        /\ hist' = r.m.hist
        /\ UNCHANGED <<nodes, count, value, var_name>>

\* a call that makes the new object its own target
CallSelf(n, x) ==
    [out |-> Ret(None),
     new |-> <<[cls |-> NodeTarget(Len(nodes) + 1), args |-> <<x>>, kwargs |-> <<>>,
                variables |-> nodes[n].variables]>>]

\* ParamObj.__call__(x) on node n: what it returns (the object it
\* constructed, in new) or raises; the text of the warning is str(obj)
Call(n, x) ==
    LET obj == ParamObj(nodes, NodeTarget(n), <<x>>, <<>>)
        text == RenderObj(obj)
    IN  [out |-> IF text.ok THEN Ret(None) ELSE text, new |-> <<obj>>]

\* ParamObj.__call__(x) on node n; when it raises nothing was written
call_(n, x) ==
    /\ Len(nodes) < MaxNodes
    /\ LET r == Call(n, x)
       IN  IF r.out.ok THEN Allocate(r.new[1]) ELSE UNCHANGED vars

\* a build() that keeps the built arguments in place of the arguments
build_in_place(n) ==
    LET r == BuildNode(Machine, n)
        ra == BuildSeq(Machine, nodes[n].args, <<>>)
    IN  /\ r.out # Unmodelled
        /\ instance' = r.m.instance
        /\ vars_state' = r.m.vars_state
        /\ hist' = r.m.hist
        /\ nodes' = [nodes EXCEPT ![n].args =
                         IF ra.out.ok THEN [i \in DOMAIN ra.vals |-> Const(ra.vals[i])]
                         ELSE @]
        /\ UNCHANGED <<count, value, var_name>>

\* ParamObj.build() on node n, called from outside
build(n) ==
    LET r == BuildNode(Machine, n)
    IN  /\ r.out # Unmodelled
        /\ instance' = r.m.instance
        /\ vars_state' = r.m.vars_state
        /\ hist' = r.m.hist
        /\ UNCHANGED <<nodes, count, value, var_name>>

\* a Variable of the program is assigned a value: its version counter goes up
assign(v, x) ==
    /\ Mentioned(v)
    /\ count[v] < MaxCount
    /\ count' = [count EXCEPT ![v] = @ + 1]
    /\ value' = [value EXCEPT ![v] = x]
    /\ UNCHANGED <<nodes, instance, vars_state, hist, var_name>>

Init ==
    /\ nodes = <<>>
    /\ instance = <<>>
    /\ vars_state = <<>>
    /\ hist = <<>>
    /\ count = [v \in Vars |-> 0]
    /\ value = [v \in Vars |-> IntV(2)]
    /\ var_name \in Namings

\* a program applies a binary operator among ops, forward or reflected
Binary(ops) ==
    \/ \E op_name \in OpsAtHand \cap ops, self \in SymObjs(NoArg) :
          \E other \in Operands(self) : do_op(op_name, self, other)
    \/ \E op_name \in OpsAtHand \cap ops, self \in SymObjs(NoArg), c \in Concretes :
          do_rop(op_name, self, Const(c))

\* the other operations that construct, build and assign
Others ==
    \/ \E op_name \in {"neg", "abs"}, self \in SymObjs(NoArg) : do_unary(op_name, self)
    \/ \E x \in Operands(NoArg), keyword \in BOOLEAN : new_box(x, keyword)
    \/ \E x \in Operands(NoArg) : new_partial(x)
    \/ \E n \in 1..Len(nodes), i \in DOMAIN AttrNames : getattr_(n, i)
    \/ \E n \in 1..Len(nodes), x \in Operands(NoArg) : call_(n, x)
    \/ \E n \in 1..Len(nodes) : build(n)
    \/ \E v \in Vars, x \in Values : assign(v, x)

\* the operations that read only
Queries ==
    \/ \E n \in 1..Len(nodes) : str_(n)
    \/ \E n \in 1..Len(nodes) : to_dict(n)

Next == Binary(BinOps) \/ Others

Spec == Init /\ [][Next]_vars

\* the binary operators of the programs that also render and serialize
QueryOps == {"__add__", "__floordiv__"}

NextQ == Binary(QueryOps) \/ Others \/ Queries

\* the programs that construct, build, assign, render and serialize
SpecQ == Init /\ [][NextQ]_vars

(***************************************************************************)
(* Vocabulary of the properties.                                           *)
(***************************************************************************)
Nodes == 1..Len(nodes)

\* what build() on node n does when called in the current state
Built(n) == BuildNode(Machine, n)

\* the node children of node n: its Parametrized arguments, keyword values
\* and target that are nodes
Children(n) ==
    {x.id : x \in {y \in Range(nodes[n].args \o KwValues(nodes[n].kwargs)) :
                      y.k = "node"}}
    \cup (IF nodes[n].cls.k = "node" THEN {nodes[n].cls.id} ELSE {})

\* in the operation that led to m, the build of a child of n raised
ChildRaised(m, n) ==
    \E c \in Children(n) : m.blt[c] > 0 /\ ~m.hist[c].out.ok

\* some variable of node n has a higher version than at the latest build()
\* call on n
ChangedSince(n) ==
    /\ hist[n].called
    /\ \E k \in Names : nodes[n].variables[k] # 0 /\ CurVersions(n)[k] > hist[n].vers[k]

\* no variable of node n has changed its version since the latest build()
\* call on n
UnchangedSince(n) == hist[n].called /\ CurVersions(n) = hist[n].vers

(***************************************************************************)
(* C1: between two consecutive build() calls on a node with no version     *)
(* change of its variables, the second call returns the cached object -    *)
(* the one the first call returned, if it returned - and does not invoke   *)
(* the node's wrapped callable.                                            *)
(***************************************************************************)
C1_MemoizedRebuild ==
    \A n \in Nodes :
        UnchangedSince(n) =>
            LET r == Built(n)
            IN  /\ r.m.inv[n] = 0
                /\ r.out = Ret(instance[n])
                /\ r.m.instance[n] = instance[n]
                /\ hist[n].out.ok => r.out = hist[n].out

\* the latest build() of some node was a second call at unchanged versions
\* that handed back a computed number without invoking the callable
C1_Witness ==
    \E n \in Nodes :
        /\ hist[n].again /\ hist[n].prev = hist[n].vers
        /\ ~hist[n].invoked
        /\ hist[n].out.ok /\ IsNum(hist[n].out.val)

(***************************************************************************)
(* C2 as stated: when a variable of a node has had its version incremented *)
(* since the previous build() call on the node, build() invokes the node's *)
(* wrapped callable again and hands back what that invocation produced.    *)
(***************************************************************************)
C2_RebuildOnChange ==
    \A n \in Nodes :
        ChangedSince(n) =>
            LET r == Built(n)
            IN  r.out # Unmodelled => r.m.inv[n] = 1 /\ r.out = r.m.res[n]

(***************************************************************************)
(* C2 amended: when a variable of a node has had its version incremented   *)
(* since the previous build() call on the node, build() recomputes: unless *)
(* the build of one of the node's arguments, keyword values or target      *)
(* raises (build() then raises that error without invoking the callable),  *)
(* it invokes the wrapped callable exactly once and hands back what that   *)
(* invocation produced.                                                    *)
(***************************************************************************)
C2_RebuildOnChangeUnlessChildRaises ==
    \A n \in Nodes :
        ChangedSince(n) =>
            LET r == Built(n)
            IN  r.out # Unmodelled =>
                    IF ChildRaised(r.m, n)
                    THEN r.m.inv[n] = 0 /\ ~r.out.ok
                    ELSE r.m.inv[n] = 1 /\ r.out = r.m.res[n]

\* the latest build() of some node was a second call, after a version of one
\* of its variables went up, and it invoked the callable and returned
C2_Witness ==
    \E n \in Nodes :
        /\ hist[n].again /\ hist[n].invoked /\ hist[n].out.ok
        /\ \E k \in Names : hist[n].prev[k] # Absent /\ hist[n].vers[k] > hist[n].prev[k]

(***************************************************************************)
(* C3: a build() that raises leaves the node's _instance and _vars_state   *)
(* as they were before the call.                                           *)
(***************************************************************************)
C3_FailedBuildKeepsState ==
    \A n \in Nodes :
        LET r == Built(n)
        IN  (~r.out.ok /\ r.out # Unmodelled) =>
                /\ r.m.instance[n] = instance[n]
                /\ r.m.vars_state[n] = vars_state[n]

(***************************************************************************)
(* C4: after a build() call in which the node's wrapped callable raised,   *)
(* the next build() call at unchanged versions invokes the callable again, *)
(* exactly once.                                                           *)
(***************************************************************************)
C4_RetryAfterFailure ==
    \A n \in Nodes :
        (UnchangedSince(n) /\ hist[n].invoked /\ ~hist[n].out.ok) =>
            Built(n).m.inv[n] = 1

RECURSIVE Eval(_)
RECURSIVE EvalSeq(_, _)

\* the values of xs under the current values of the Variables, in order
EvalSeq(xs, acc) ==
    IF xs = <<>> THEN [out |-> Ret(None), vals |-> acc]
    ELSE LET x == Head(xs)
             r == IF x.k = "node" THEN Eval(x.id)
                  ELSE IF x.k = "var" THEN Ret(value[x.id])
                  ELSE Ret(x.val)
         IN  IF ~r.ok THEN [out |-> r, vals |-> acc]
             ELSE EvalSeq(Tail(xs), Append(acc, r.val))

\* the object node n stands for: its resolved target applied to its
\* arguments and keyword values resolved under the current values of the
\* Variables
Eval(n) ==
    LET self == nodes[n]
        ra == EvalSeq(self.args, <<>>)
        rk == EvalSeq(KwValues(self.kwargs), <<>>)
        rc == IF self.cls.k = "node" THEN Eval(self.cls.id) ELSE Ret(None)
        kwargs_ == [i \in DOMAIN self.kwargs |-> <<self.kwargs[i][1], rk.vals[i]>>]
    IN  IF ~ra.out.ok THEN ra.out
        ELSE IF ~rk.out.ok THEN rk.out
        ELSE IF ~rc.ok THEN rc
        ELSE IF self.cls.k = "node" THEN CallObj(rc.val, ra.vals, kwargs_)
        ELSE CallFn(self.cls.name, ra.vals, kwargs_)

(***************************************************************************)
(* C5: whenever build() returns, it returns the object the node stands for *)
(* under the current values of the Variables.                              *)
(***************************************************************************)
C5_BuildReturnsCurrentObject ==
    \A n \in Nodes :
        LET r == Built(n)
        IN  r.out.ok => r.out = Eval(n)

(***************************************************************************)
(* C6: a node without variables has its wrapped callable invoked by its    *)
(* first build() and by no later one, which returns the first result.      *)
(***************************************************************************)
C6_NoVariablesBuiltOnce ==
    \A n \in Nodes :
        nodes[n].variables = NoVars =>
            LET r == Built(n)
            IN  IF hist[n].called
                THEN r.m.inv[n] = 0 /\ r.out = hist[n].out
                ELSE r.out # Unmodelled => r.m.inv[n] = 1

\* the Parametrized sub-objects of node n: its target, arguments and keyword
\* values that are Variables or nodes
Subs(n) ==
    {x \in Range(nodes[n].args \o KwValues(nodes[n].kwargs)) : IsParametrized(x)}
    \cup (IF nodes[n].cls.k = "node" THEN {NodeRef(nodes[n].cls.id)} ELSE {})

Keys(d) == {k \in Names : d[k] # 0}

(***************************************************************************)
(* C7: the keys of a node's variables mapping are exactly the keys of the  *)
(* variables mappings of its Parametrized target, arguments and keyword    *)
(* values, each key is mapped to a Variable that one of them maps it to,   *)
(* and a sub-object that is not Parametrized contributes nothing.          *)
(***************************************************************************)
C7_VariablesAreTheUnion ==
    \A n \in Nodes :
        /\ Keys(nodes[n].variables) =
               UNION {Keys(VariablesOf(nodes, x)) : x \in Subs(n)}
        /\ \A k \in Keys(nodes[n].variables) :
               \E x \in Subs(n) : VariablesOf(nodes, x)[k] = nodes[n].variables[k]

\* a node made from two Variables of different names (and one made from a
\* node and a concrete value) holds exactly those Variables
C7_Witness ==
    \E n \in Nodes :
        /\ var_name = <<"a", "b">>
        /\ nodes[n].args = <<VarRef(1), VarRef(2)>>
        /\ nodes[n].variables = [k \in Names |-> IF k = "a" THEN 1 ELSE 2]

\* what building the Parametrized x, or taking the concrete x, gives from m
Resolve(m, x) ==
    IF x.k = "node" THEN BuildNode(m, x.id)
    ELSE [m |-> m, out |-> IF x.k = "var" THEN Ret(value[x.id]) ELSE Ret(x.val)]

(***************************************************************************)
(* C8: a node made by a binary operator wraps the operator function with   *)
(* the operands in the order written - (x, c) for x OP c, (c, x) for the   *)
(* reflected c OP x - and its build() gives the operator applied to what   *)
(* the operands build to, in that order.                                   *)
(***************************************************************************)
C8_OperatorBuildsToOperatorOfBuilds ==
    \A n \in Nodes :
        (/\ nodes[n].cls.k = "fn" /\ nodes[n].cls.name \in BinOps
         /\ Len(nodes[n].args) = 2) =>
            LET r == Built(n)
                p == Resolve(r.m, nodes[n].args[1])
                q == Resolve(p.m, nodes[n].args[2])
                expected == IF ~p.out.ok THEN p.out
                            ELSE IF ~q.out.ok THEN q.out
                            ELSE ApplyBinOp(nodes[n].cls.name, p.out.val, q.out.val)
            IN  (r.out # Unmodelled /\ expected # Unmodelled) => r.out = expected

\* node was made by an operator of OpSupport
IsOpNode(node) ==
    node.cls.k = "fn" /\ node.cls.name \in BinOps \cup {"neg", "abs"}

(***************************************************************************)
(* C9: applying a binary or unary operator adds one new, never built node  *)
(* and leaves every existing node - its fields, _instance, _vars_state     *)
(* and record of build() calls - and every Variable as it was.             *)
(***************************************************************************)
C9_OperatorsOnlyConstruct ==
    [][(Len(nodes') = Len(nodes) + 1 /\ IsOpNode(nodes'[Len(nodes) + 1])) =>
          /\ \A n \in Nodes :
                /\ nodes'[n] = nodes[n]
                /\ instance'[n] = instance[n]
                /\ vars_state'[n] = vars_state[n]
                /\ hist'[n] = hist[n]
          /\ instance'[Len(nodes) + 1] = None
          /\ vars_state'[Len(nodes) + 1] = NoState
          /\ hist'[Len(nodes) + 1] = NoCall
          /\ UNCHANGED <<count, value>>]_vars

\* an operator node, not built yet, over a node that holds a built instance
C9_Witness ==
    \E n \in Nodes :
        /\ IsOpNode(nodes[n]) /\ ~hist[n].called
        /\ \E x \in Children(n) : hist[x].called /\ instance[x] # None

(***************************************************************************)
(* C10: the node made by attribute access x.attr wraps getattr with        *)
(* (x, attr), and its build() gives getattr(build(x), attr).               *)
(***************************************************************************)
C10_AttributeBuildsToGetattrOfBuild ==
    \A n \in Nodes :
        (nodes[n].cls = Fn("getattr")) =>
            LET r == Built(n)
                p == Resolve(r.m, nodes[n].args[1])
                expected == IF ~p.out.ok THEN p.out
                            ELSE GetAttrOf(<<p.out.val, nodes[n].args[2].val>>, <<>>)
            IN  r.out = expected

\* node was made by calling a node
IsCallNode(node) == node.cls.k = "node"

(***************************************************************************)
(* C11: calling a node p with an argument returns a new node whose target  *)
(* is p and leaves every existing node - its _instance, _vars_state and    *)
(* record of build() calls - as it was; building a node made by a call     *)
(* executes the call exactly once at each distinct snapshot of the         *)
(* versions of its variables: once in the first build() at that snapshot,  *)
(* not again in a later one.                                               *)
(***************************************************************************)
C11_CallProxyRunsOncePerSnapshot ==
    /\ [](\A n \in Nodes :
             /\ \A x \in Operands(NoArg) :
                   LET r == Call(n, x)
                   IN  /\ r.out.ok
                       /\ r.new[1].cls = NodeTarget(n)
                       /\ r.new[1].args = <<x>>
             /\ IsCallNode(nodes[n]) =>
                   LET r == Built(n)
                   IN  r.out # Unmodelled =>
                           r.m.inv[n] = (IF UnchangedSince(n) THEN 0 ELSE 1))
    /\ [][(Len(nodes') = Len(nodes) + 1 /\ IsCallNode(nodes'[Len(nodes) + 1])) =>
             \A n \in Nodes :
                 /\ instance'[n] = instance[n]
                 /\ vars_state'[n] = vars_state[n]
                 /\ hist'[n] = hist[n]]_vars

(***************************************************************************)
(* C12: when a wrapped callable raises during a build() - of the node      *)
(* built or of a node below it - the build() raises that very error: it    *)
(* does not return, and it raises no other error.                          *)
(***************************************************************************)
C12_ErrorsPropagateUnchanged ==
    \A n \in Nodes :
        LET r == Built(n)
        IN  \A c \in Nodes :
                (r.m.inv[c] > 0 /\ ~r.m.res[c].ok /\ r.m.res[c] # Unmodelled) =>
                    r.out = r.m.res[c]

\* the latest build() of a node raised, without invoking the node's callable,
\* the error that the callable of a node below it raised in that build
C12_Witness ==
    \E n \in Nodes :
        \E c \in Children(n) :
            /\ hist[n].called /\ ~hist[n].invoked
            /\ hist[c].invoked /\ ~hist[c].out.ok /\ hist[c].out # Unmodelled
            /\ hist[n].out = hist[c].out

(***************************************************************************)
(* C13: attribute access on a node for a name its target does not have     *)
(* raises the AttributeError that names that attribute and constructs no   *)
(* node.                                                                   *)
(***************************************************************************)
C13_MissingAttributeRaises ==
    \A n \in Nodes :
        \A i \in DOMAIN AttrNames :
            ~HasAttr(nodes[n].cls, AttrNames[i]) =>
                LET r == GetAttr(n, i)
                IN  r.out = AttributeError(AttrNames[i]) /\ r.new = <<>>

C15_BuildDescendsAndEnds ==
    \A n \in Nodes :
        /\ \A c \in Children(n) : c < n
        /\ LET r == Built(n)
           IN  /\ r.out.ok \in BOOLEAN
               /\ r.m.blt[n] = 1
               /\ \A c \in Nodes : r.m.blt[c] > 0 => c <= n

\* a node made by calling a node was built, through its target, and returned
C15_Witness ==
    \E n \in Nodes :
        /\ IsCallNode(nodes[n])
        /\ hist[n].invoked /\ hist[n].out.ok
        /\ hist[nodes[n].cls.id].called

(***************************************************************************)
(* C16: a node's wrapped callable is invoked at most once for each         *)
(* combination of the versions of the node's variables: a build() - of     *)
(* the node or of any node above it, also one that reaches the node twice  *)
(* - invokes it at most once, and not at all when the latest build() call  *)
(* on the node was made at the current versions; and a version never goes  *)
(* down, so that a combination once left does not come back.               *)
(***************************************************************************)
C16_AtMostOncePerVersions ==
    /\ [](\A n \in Nodes :
             LET r == Built(n)
             IN  \A c \in Nodes :
                     /\ r.m.inv[c] <= 1
                     /\ UnchangedSince(c) => r.m.inv[c] = 0)
    /\ [][\A v \in Vars : count'[v] >= count[v]]_vars

\* a node over the same node twice was built: the shared node was reached
\* twice, and its latest build() call, at unchanged versions, did not invoke
\* its callable
C16_Witness ==
    \E n \in Nodes :
        /\ Len(nodes[n].args) = 2
        /\ nodes[n].args[1].k = "node" /\ nodes[n].args[2] = nodes[n].args[1]
        /\ hist[n].invoked /\ hist[n].out.ok /\ ~hist[n].again
        /\ LET c == nodes[n].args[1].id
           IN  hist[c].again /\ hist[c].prev = hist[c].vers /\ ~hist[c].invoked

(***************************************************************************)
(* C17: build() returns without invoking the node's callable only when the *)
(* current versions equal the stored snapshot and the node holds a built   *)
(* instance; so a build() that returns never returns the absent instance.  *)
(***************************************************************************)
C17_FastPathNeedsInstance ==
    \A n \in Nodes :
        LET r == Built(n)
        IN  /\ (r.out.ok /\ r.m.inv[n] = 0) =>
                   (CurVersions(n) = vars_state[n] /\ instance[n] # None)
            /\ r.out.ok => r.out.val # None

(***************************************************************************)
(* C18: no operation changes the target, the arguments, the keyword        *)
(* arguments or the keys of the variables mapping of a node that exists.   *)
(***************************************************************************)
C18_NodesKeepTheirFields ==
    [][\A n \in Nodes :
           /\ n <= Len(nodes')
           /\ nodes'[n].cls = nodes[n].cls
           /\ nodes'[n].args = nodes[n].args
           /\ nodes'[n].kwargs = nodes[n].kwargs
           /\ Keys(nodes'[n].variables) = Keys(nodes[n].variables)]_vars

\* a node with Parametrized arguments was built with success, then, after an
\* assignment, with failure, and serves as the operand or target of a later
\* node
C18_Witness ==
    \E n \in Nodes :
        /\ Subs(n) # {}
        /\ hist[n].again /\ hist[n].prev # hist[n].vers
        /\ ~hist[n].out.ok /\ instance[n] # None
        /\ \E p \in Nodes : n \in Children(p)

(***************************************************************************)
(* C19: which Variable a node tracks under a key that several of its       *)
(* contributors carry.  The contributors of a node are, in the order of    *)
(* the merges of __init__, its target if that is a node, its positional    *)
(* arguments and its keyword values.                                       *)
(***************************************************************************)
Contributors(n) ==
    LET self == nodes[n]
    IN  (IF self.cls.k = "node" THEN <<NodeRef(self.cls.id)>> ELSE <<>>)
        \o self.args \o KwValues(self.kwargs)

\* the positions of the contributors of n that carry key k
Carriers(n, k) ==
    {i \in DOMAIN Contributors(n) : VariablesOf(nodes, Contributors(n)[i])[k] # 0}

Least(S) == CHOOSE i \in S : \A j \in S : i <= j

Greatest(S) == CHOOSE i \in S : \A j \in S : i >= j

\* C19 as stated: under every key, a node tracks the Variable of the first
\* contributor that carries the key; a later merge never replaces it
C19_FirstMergedKept ==
    \A n \in Nodes : \A k \in Names :
        Carriers(n, k) # {} =>
            nodes[n].variables[k] =
                VariablesOf(nodes, Contributors(n)[Least(Carriers(n, k))])[k]

\* C19 amended: under every key, a node tracks the Variable of the last
\* contributor that carries the key (the target is merged first, then the
\* positional arguments in order, then the keyword values); a later merge
\* replaces the Variable recorded for the key
C19_LastMergedKept ==
    \A n \in Nodes : \A k \in Names :
        IF Carriers(n, k) = {} THEN nodes[n].variables[k] = 0
        ELSE nodes[n].variables[k] =
                 VariablesOf(nodes, Contributors(n)[Greatest(Carriers(n, k))])[k]

\* a node has two contributors that carry different Variables under one key
C19_Witness ==
    \E n \in Nodes : \E k \in Names : \E i, j \in Carriers(n, k) :
        VariablesOf(nodes, Contributors(n)[i])[k]
            # VariablesOf(nodes, Contributors(n)[j])[k]

(***************************************************************************)
(* C20: the nodes reachable from a node through targets, positional        *)
(* arguments and keyword values.  A node refers only to nodes constructed  *)
(* before it.                                                              *)
(***************************************************************************)
RECURSIVE Reachable(_)
Reachable(n) == {n} \cup UNION {Reachable(c) : c \in Children(n)}

\* C20: whenever build() on a node returns normally, the stored snapshot of
\* every node reachable from it equals the current counts of that node's
\* own variables
C20_BuiltGraphIsCoherent ==
    \A n \in Nodes :
        LET r == Built(n)
        IN  r.out.ok =>
                \A c \in Reachable(n) : r.m.vars_state[c] = CurVersions(c)
====
